---- MODULE Spec2Model ----
\* Trinity Mind engine (src/trinity_core.py, src/api/main.py): the three-stage
\* Generate -> Oppose -> Synthesize pipeline over a pluggable completion provider.
\*
\* Text is modelled character by character: a Python str is a sequence of
\* one-character strings, so that templates, slicing (prompt[:200]) and
\* substring containment are computed the way the code computes them.
\* Temperatures are floats in the code; here they are integers in hundredths
\* (0.7 is 70, 0.2 is 20), which is exact for the comparisons and the one
\* subtraction the code performs on them.
EXTENDS Integers, Sequences, FiniteSets, TLC

VARIABLES
    heap,         \* OpenAIProvider objects alive: id -> [model, _client, _ok]
    pc,           \* position of the (single-threaded) caller / pipeline
    config,       \* <<TrinityConfig>> held by a wrapper frame, <<>> otherwise
    supplied,     \* the provider argument the outermost caller passed
    provider_arg, \* the provider parameter of the current frame
    topic, goal, constraints, temperature,  \* run_trinity_loop parameters
    provider,     \* run_trinity_loop's local after line 102
    generated, opposed, synthesized,        \* run_trinity_loop locals
    calls,        \* log of provider.complete calls made by the current run
    result,       \* <<mapping>> once run_trinity_loop has returned, else <<>>
    error,        \* <<exception>> once run_trinity_loop has raised, else <<>>
    direct,       \* <<record>> of the last complete call made outside a run
    memo          \* <<record>> of one earlier returned run (for comparison)

vars == <<heap, pc, config, supplied, provider_arg, topic, goal, constraints,
          temperature, provider, generated, opposed, synthesized, calls,
          result, error, direct, memo>>

-----------------------------------------------------------------------------
\* Bounds of the model and constants of the program.

\* Length of the long topic; long enough that the rendered generate prompt
\* exceeds the 200 characters the offline completion echoes.
LongLen == 150
\* Largest base temperature drawn, in hundredths (2.0).
MaxTemp == 200

\* prompt[:200]
PromptLimit == 200
\* temperature: float = 0.7
DefaultTemperature == 70
\* max_tokens: int = 800
DefaultMaxTokens == 800
\* temperature - 0.2
SynCooling == 20

-----------------------------------------------------------------------------
\* Text helpers: Python str operations on character sequences.

Min(a, b) == IF a < b THEN a ELSE b
Max(a, b) == IF a > b THEN a ELSE b

\* s[:n] for n >= 0
Slice(s, n) == SubSeq(s, 1, Min(n, Len(s)))

\* c * n
Rep(c, n) == [i \in 1..n |-> c]

\* needle in hay
Contains(hay, needle) ==
    \E i \in 0..(Len(hay) - Len(needle)) :
        SubSeq(hay, i + 1, i + Len(needle)) = needle

\* s.startswith(p)
StartsWith(s, p) == Len(p) <= Len(s) /\ SubSeq(s, 1, Len(p)) = p

Whitespace == {" ", "\n", "\t"}

RECURSIVE LStrip(_)
LStrip(s) == IF s # <<>> /\ Head(s) \in Whitespace THEN LStrip(Tail(s)) ELSE s

RECURSIVE RStrip(_)
RStrip(s) ==
    IF s # <<>> /\ s[Len(s)] \in Whitespace
    THEN RStrip(SubSeq(s, 1, Len(s) - 1))
    ELSE s

\* s.strip()
Strip(s) == RStrip(LStrip(s))

Reverse(s) == [i \in 1..Len(s) |-> s[Len(s) + 1 - i]]

-----------------------------------------------------------------------------
\* Prompt templates (lines 14-29), split at their substitution slots.

GEN_TEMPLATE_topic ==
    <<"T", "o", "p", "i", "c", ":", " ">>
GEN_TEMPLATE_goal ==
    <<"\n", "G", "o", "a", "l", ":", " ">>
GEN_TEMPLATE_constraints ==
    <<"\n", "C", "o", "n", "s", "t", "r", "a", "i", "n", "t", "s", ":", " ">>
GEN_TEMPLATE_tail ==
    <<"\n", "G", "e", "n", "e", "r", "a", "t", "e", " ", "5", " ", "a", "p", "p", "r",
      "o", "a", "c", "h", "e", "s", ".">>
OPP_TEMPLATE_head ==
    <<"O", "p", "p", "o", "s", "e", " ", "t", "h", "e", " ", "f", "o", "l", "l", "o",
      "w", "i", "n", "g", ":", "\n">>
OPP_TEMPLATE_tail ==
    <<"\n", "L", "i", "s", "t", " ", "t", "e", "n", "s", "i", "o", "n", "s", ",", " ",
      "r", "i", "s", "k", "s", ",", " ", "a", "n", "d", " ", "t", "h", "e", " ", "t",
      "o", "p", " ", "2", " ", "a", "p", "p", "r", "o", "a", "c", "h", "e", "s", ".">>
SYN_TEMPLATE_head ==
    <<"F", "u", "s", "e", " ", "t", "h", "e", "s", "e", " ", "p", "e", "r", "s", "p",
      "e", "c", "t", "i", "v", "e", "s", ":", "\n">>
SYN_TEMPLATE_tail ==
    <<"\n", "R", "e", "t", "u", "r", "n", " ", "a", " ", "f", "i", "n", "a", "l", " ",
      "p", "l", "a", "n", ",", " ", "r", "a", "t", "i", "o", "n", "a", "l", "e", ",",
      " ", "m", "e", "t", "r", "i", "c", "s", ",", " ", "a", "n", "d", " ", "r", "i",
      "s", "k", "s", ".">>

\* Mutant: the topic of an earlier run is kept and rendered again (a prompt
\* cached across calls).
GEN_TEMPLATE_stale(t, g, c) ==
    GEN_TEMPLATE_topic \o (IF memo # <<>> THEN memo[1].topic ELSE t)
        \o GEN_TEMPLATE_goal \o g
        \o GEN_TEMPLATE_constraints \o c \o GEN_TEMPLATE_tail

\* GEN_TEMPLATE.format(topic=topic, goal=goal, constraints=constraints)
GEN_TEMPLATE(t, g, c) ==
    GEN_TEMPLATE_topic \o t \o GEN_TEMPLATE_goal \o g
        \o GEN_TEMPLATE_constraints \o c \o GEN_TEMPLATE_tail

\* Mutant: the oppose prompt embeds only the first 200 characters of the
\* generated text.
OPP_TEMPLATE_clipped(g) ==
    OPP_TEMPLATE_head \o Slice(g, PromptLimit) \o OPP_TEMPLATE_tail

\* OPP_TEMPLATE.format(generated=generated)
OPP_TEMPLATE(g) == OPP_TEMPLATE_head \o g \o OPP_TEMPLATE_tail

\* Mutant: the synthesize prompt is rendered from the generated text instead
\* of the opposed text.
SYN_TEMPLATE_from_generated(o) ==
    SYN_TEMPLATE_head \o generated \o SYN_TEMPLATE_tail

\* SYN_TEMPLATE.format(opposed=opposed)
SYN_TEMPLATE(o) == SYN_TEMPLATE_head \o o \o SYN_TEMPLATE_tail

-----------------------------------------------------------------------------
\* Providers.

None == "None"

\* Test doubles a caller may inject: subclasses of LLMProvider without fields.
\*   echo  - complete returns its prompt unchanged
\*   rev   - complete returns its prompt reversed (a pure function of the prompt)
\*   flaky - complete returns its prompt or raises
Stubs == {"echo", "rev", "flaky"}
PureStubs == {"echo", "rev"}

\* OpenAIProvider objects the caller constructed itself, and the one
\* run_trinity_loop constructs when no provider is passed.
CallerProviders == {"oa1", "oa2"}
DefaultProvider == "dflt"

header ==
    <<"[", "O", "F", "F", "L", "I", "N", "E", " ", "C", "O", "M", "P", "L", "E", "T",
      "I", "O", "N", "]">>
\* the literal between the header and the echoed prompt in the f-string
PromptLabel ==
    <<"\n", "P", "r", "o", "m", "p", "t", ":", " ">>

\* OpenAIProvider.__init__: sdk is whether `import openai; openai.OpenAI()`
\* succeeded.
OpenAIInit(model, sdk) ==
    IF sdk
    THEN [model |-> model, _client |-> "client", _ok |-> TRUE]
    ELSE [model |-> model, _client |-> None, _ok |-> FALSE]

DefaultModel == "gpt-4o-mini"

\* Outcome of a complete call.
Returned(text) == [raised |-> FALSE, text |-> text, exc |-> None]
Raised(exc) == [raised |-> TRUE, text |-> <<>>, exc |-> exc]

\* Mutant: the offline completion echoes the whole prompt.
OfflineCompletion_unbounded(prompt) == header \o PromptLabel \o prompt

\* The degraded branch of OpenAIProvider.complete:
\* f"{header}\nPrompt: {prompt[:200]}"
OfflineCompletion(prompt) == header \o PromptLabel \o Slice(prompt, PromptLimit)

\* message.content values the hosted model may answer with.
LiveContents == {<<" ", "o", "k", "\n">>, <<>>}

\* What a live call may raise: an error of the SDK call, or AttributeError
\* from .strip() when message.content is None.
LiveErrors == {"APIError", "AttributeError"}

\* OpenAIProvider.complete: the set of outcomes of one call on object obj.
OpenAIComplete(obj, prompt) ==
    IF ~obj._ok \/ obj._client = None
    THEN {Returned(OfflineCompletion(prompt))}
    ELSE {Returned(Strip(c)) : c \in LiveContents}
             \cup {Raised(e) : e \in LiveErrors}

\* Mutant: a call that raised marks the provider as not ready.
AfterComplete_trips(obj, out) ==
    IF out.raised THEN [obj EXCEPT !._ok = FALSE] ELSE obj

\* OpenAIProvider.complete assigns no attribute of self: the object after a
\* call, whatever its outcome.
AfterComplete(obj, out) == obj

\* complete of a test double.
StubComplete(p, prompt) ==
    CASE p = "echo" -> {Returned(prompt)}
      [] p = "rev" -> {Returned(Reverse(prompt))}
      [] OTHER -> {Returned(prompt), Raised("RuntimeError")}

\* provider.complete(prompt, ...) by dynamic dispatch on the object.
Complete(p, prompt) ==
    IF p \in DOMAIN heap THEN OpenAIComplete(heap[p], prompt)
    ELSE StubComplete(p, prompt)

\* The heap after a complete call on p.
HeapAfter(p, out) ==
    IF p \in DOMAIN heap
    THEN [heap EXCEPT ![p] = AfterComplete(heap[p], out)]
    ELSE heap

\* bool(p) for a provider argument: LLMProvider and OpenAIProvider define
\* neither __bool__ nor __len__, so every provider object is truthy and only
\* None is falsy.
Truthy(p) == p # None

-----------------------------------------------------------------------------
\* Inputs.

DefaultGoal ==
    <<"c", "l", "a", "r", "i", "t", "y">>
DefaultConstraints ==
    <<"r", "e", "a", "l", "i", "s", "t", "i", "c">>

Topics == {<<>>, <<"A", "I">>, Rep("x", LongLen)}
Goals == {DefaultGoal, <<"r", "o", "a", "d", "m", "a", "p">>}
Constraints == {DefaultConstraints, <<>>}
Temps ==
    {-10, 0, 1, SynCooling - 1, SynCooling, SynCooling + 1, DefaultTemperature,
     MaxTemp - 1, MaxTemp}
ProviderArgs == {None} \cup Stubs \cup CallerProviders

\* @dataclass TrinityConfig / pydantic TrinityRequest
TrinityConfig(t, g, c) == [topic |-> t, goal |-> g, constraints |-> c]
Configs == {TrinityConfig(t, g, c) : t \in Topics, g \in Goals, c \in Constraints}

DirectPrompts ==
    {<<>>, Rep("p", PromptLimit), Rep("p", PromptLimit) \o <<"q">>}
MaxTokens == {1, DefaultMaxTokens}

-----------------------------------------------------------------------------
\* Initial state: the caller has constructed two OpenAIProvider objects, one
\* where the SDK could not be initialised and one where it could; no pipeline
\* run is in progress.

NoText == <<>>

Init ==
    /\ heap = [o \in CallerProviders |->
                 OpenAIInit(DefaultModel, o = "oa2")]
    /\ pc = "idle"
    /\ config = <<>>
    /\ supplied = None /\ provider_arg = None /\ provider = None
    /\ topic = NoText /\ goal = NoText /\ constraints = NoText
    /\ temperature = DefaultTemperature
    /\ generated = NoText /\ opposed = NoText /\ synthesized = NoText
    /\ calls = <<>> /\ result = <<>> /\ error = <<>>
    /\ direct = <<>> /\ memo = <<>>

\* What every call from the idle caller leaves alone or resets.
EnterFrame ==
    /\ direct' = <<>>
    /\ UNCHANGED <<heap, provider, generated, opposed, synthesized, calls,
                   result, error, memo>>

-----------------------------------------------------------------------------
\* Entry points.

\* run_trinity_loop(topic, goal, constraints, provider=p, temperature=t)
CallRunTrinityLoop(t, g, c, p, temp) ==
    /\ pc = "idle"
    /\ pc' = "run_trinity_loop"
    /\ topic' = t /\ goal' = g /\ constraints' = c
    /\ temperature' = temp
    /\ supplied' = p /\ provider_arg' = p
    /\ config' = <<>>
    /\ EnterFrame

\* api/main.py reason(req): run_trinity_loop(req.topic, req.goal,
\* req.constraints), no provider, default temperature.
Reason(req) ==
    /\ pc = "idle"
    /\ pc' = "run_trinity_loop"
    /\ topic' = req.topic /\ goal' = req.goal /\ constraints' = req.constraints
    /\ temperature' = DefaultTemperature
    /\ supplied' = None /\ provider_arg' = None
    /\ config' = <<>>
    /\ EnterFrame

\* A caller invokes wrapper w (run_moonlander_cli or boot_moonlander_mode)
\* with a TrinityConfig, a provider and a temperature.
CallWrapper(w, cfg, p, temp) ==
    /\ pc = "idle"
    /\ pc' = w
    /\ config' = <<cfg>>
    /\ temperature' = temp
    /\ supplied' = p /\ provider_arg' = p
    /\ UNCHANGED <<topic, goal, constraints>>
    /\ EnterFrame

\* The provider keyword run_moonlander_cli hands to boot_moonlander_mode.
CliProvider(p) == p

\* Mutant: boot_moonlander_mode does not forward the provider.
BootProvider_dropped(p) == None

\* The provider keyword boot_moonlander_mode hands to run_trinity_loop.
BootProvider(p) == p

\* run_moonlander_cli: return boot_moonlander_mode(config, provider=provider,
\* temperature=temperature)
RunMoonlanderCli ==
    /\ pc = "run_moonlander_cli"
    /\ pc' = "boot_moonlander_mode"
    /\ provider_arg' = CliProvider(provider_arg)
    /\ UNCHANGED <<heap, config, supplied, topic, goal, constraints,
                   temperature, provider, generated, opposed, synthesized,
                   calls, result, error, direct, memo>>

\* boot_moonlander_mode: return run_trinity_loop(topic=config.topic, ...)
BootMoonlanderMode ==
    /\ pc = "boot_moonlander_mode"
    /\ pc' = "run_trinity_loop"
    /\ topic' = config[1].topic
    /\ goal' = config[1].goal
    /\ constraints' = config[1].constraints
    /\ provider_arg' = BootProvider(provider_arg)
    /\ UNCHANGED <<heap, config, supplied, temperature, provider, generated,
                   opposed, synthesized, calls, result, error, direct, memo>>

-----------------------------------------------------------------------------
\* run_trinity_loop, one step per provider call.

\* provider = provider or OpenAIProvider()            (line 102)
Enter ==
    /\ pc = "run_trinity_loop"
    /\ pc' = "generate"
    /\ IF Truthy(provider_arg)
       THEN provider' = provider_arg /\ heap' = heap
       ELSE \E sdk \in BOOLEAN :
                /\ provider' = DefaultProvider
                /\ heap' = [o \in DOMAIN heap \cup {DefaultProvider} |->
                              IF o = DefaultProvider
                              THEN OpenAIInit(DefaultModel, sdk)
                              ELSE heap[o]]
    /\ UNCHANGED <<config, supplied, provider_arg, topic, goal, constraints,
                   temperature, generated, opposed, synthesized, calls,
                   result, error, direct, memo>>

\* One entry of the call log: complete(prompt, temperature=temp) on object p;
\* max_tokens is never passed by the pipeline, so it takes its default.
CallRecord(stage, p, prompt, temp, out) ==
    [stage |-> stage, on |-> p, prompt |-> prompt, temperature |-> temp,
     max_tokens |-> DefaultMaxTokens, raised |-> out.raised]

\* The exception object a provider raises: it carries its type and nothing
\* about the pipeline that called it.
Exception(exc) == [type |-> exc]

\* Mutant: the pipeline swallows the exception and carries on with an empty
\* completion.
Propagates_swallowed(out) == FALSE

\* Lines 104-113 hold no try/except: an exception raised by complete leaves
\* run_trinity_loop at once, as it is.
Propagates(out) == out.raised

\* temperature=temperature                             (lines 105, 108)
StageTemperature(temp) == temp

\* Mutant: the synthesize temperature is not clamped at 0.
SynTemperature_unclamped(temp) == temp - SynCooling

\* temperature=max(0.0, temperature - 0.2)             (line 111)
SynTemperature(temp) == Max(0, temp - SynCooling)

\* gen_prompt = GEN_TEMPLATE.format(...)
\* generated = provider.complete(gen_prompt, temperature=temperature)
Generate ==
    /\ pc = "generate"
    /\ LET gen_prompt == GEN_TEMPLATE(topic, goal, constraints) IN
       \E out \in Complete(provider, gen_prompt) :
           /\ calls' = Append(calls, CallRecord("generate", provider, gen_prompt,
                                     StageTemperature(temperature), out))
           /\ heap' = HeapAfter(provider, out)
           /\ IF Propagates(out)
              THEN /\ pc' = "raised"
                   /\ error' = <<Exception(out.exc)>>
                   /\ generated' = generated
              ELSE /\ pc' = "oppose"
                   /\ error' = error
                   /\ generated' = out.text
    /\ UNCHANGED <<config, supplied, provider_arg, topic, goal, constraints,
                   temperature, provider, opposed, synthesized, result,
                   direct, memo>>

\* opp_prompt = OPP_TEMPLATE.format(generated=generated)
\* opposed = provider.complete(opp_prompt, temperature=temperature)
Oppose ==
    /\ pc = "oppose"
    /\ LET opp_prompt == OPP_TEMPLATE(generated) IN
       \E out \in Complete(provider, opp_prompt) :
           /\ calls' = Append(calls, CallRecord("oppose", provider, opp_prompt,
                                     StageTemperature(temperature), out))
           /\ heap' = HeapAfter(provider, out)
           /\ IF Propagates(out)
              THEN /\ pc' = "raised"
                   /\ error' = <<Exception(out.exc)>>
                   /\ opposed' = opposed
              ELSE /\ pc' = "synthesize"
                   /\ error' = error
                   /\ opposed' = out.text
    /\ UNCHANGED <<config, supplied, provider_arg, topic, goal, constraints,
                   temperature, provider, generated, synthesized, result,
                   direct, memo>>

\* syn_prompt = SYN_TEMPLATE.format(opposed=opposed)
\* synthesized = provider.complete(syn_prompt, temperature=max(0.0, ...))
\* return {"generate": generated, "oppose": opposed, "synthesize": synthesized}
Synthesize ==
    /\ pc = "synthesize"
    /\ LET syn_prompt == SYN_TEMPLATE(opposed) IN
       \E out \in Complete(provider, syn_prompt) :
           /\ calls' = Append(calls, CallRecord("synthesize", provider, syn_prompt,
                                     SynTemperature(temperature), out))
           /\ heap' = HeapAfter(provider, out)
           /\ IF Propagates(out)
              THEN /\ pc' = "raised"
                   /\ error' = <<Exception(out.exc)>>
                   /\ synthesized' = synthesized
                   /\ result' = result
              ELSE /\ pc' = "returned"
                   /\ error' = error
                   /\ synthesized' = out.text
                   /\ result' = <<[generate |-> generated, oppose |-> opposed,
                                   synthesize |-> out.text]>>
    /\ UNCHANGED <<config, supplied, provider_arg, topic, goal, constraints,
                   temperature, provider, generated, opposed, direct, memo>>

\* What the caller may keep of a returned run to compare later runs with.
RunRecord ==
    [topic |-> topic, goal |-> goal, constraints |-> constraints,
     temperature |-> temperature, provider |-> provider, result |-> result[1]]

\* The call has returned or raised to its caller: the frames and their locals
\* are gone, and with them the provider run_trinity_loop constructed itself.
\* A caller that compares runs (remember) may keep the result of a run on a
\* pure stub.
Finish(remember) ==
    /\ pc \in {"returned", "raised"}
    /\ pc' = "idle"
    /\ heap' = [o \in DOMAIN heap \ {DefaultProvider} |-> heap[o]]
    /\ memo' \in {memo} \cup
                 (IF remember /\ pc = "returned" /\ provider \in PureStubs
                  THEN {<<RunRecord>>} ELSE {})
    /\ config' = <<>>
    /\ supplied' = None /\ provider_arg' = None /\ provider' = None
    /\ topic' = NoText /\ goal' = NoText /\ constraints' = NoText
    /\ temperature' = DefaultTemperature
    /\ generated' = NoText /\ opposed' = NoText /\ synthesized' = NoText
    /\ calls' = <<>> /\ result' = <<>> /\ error' = <<>>
    /\ UNCHANGED direct

\* A caller invokes complete on a provider object directly, outside any run.
DirectComplete(p, prompt, temp, mt) ==
    /\ pc = "idle"
    /\ \E out \in Complete(p, prompt) :
           /\ direct' = <<[on |-> p, prompt |-> prompt, temperature |-> temp,
                           max_tokens |-> mt, raised |-> out.raised,
                           text |-> out.text]>>
           /\ heap' = HeapAfter(p, out)
    /\ UNCHANGED <<pc, config, supplied, provider_arg, topic, goal, constraints,
                   temperature, provider, generated, opposed, synthesized,
                   calls, result, error, memo>>

Wrappers == {"run_moonlander_cli", "boot_moonlander_mode"}

Next ==
    \/ \E t \in Topics, g \in Goals, c \in Constraints,
          p \in ProviderArgs, temp \in Temps :
           CallRunTrinityLoop(t, g, c, p, temp)
    \/ \E req \in Configs : Reason(req)
    \/ \E w \in Wrappers, cfg \in Configs, p \in ProviderArgs, temp \in Temps :
           CallWrapper(w, cfg, p, temp)
    \/ RunMoonlanderCli
    \/ BootMoonlanderMode
    \/ Enter
    \/ Generate
    \/ Oppose
    \/ Synthesize
    \/ Finish(FALSE)
    \/ \E p \in Stubs \cup CallerProviders, prompt \in DirectPrompts,
          temp \in {0, DefaultTemperature}, mt \in MaxTokens :
           DirectComplete(p, prompt, temp, mt)

Spec == Init /\ [][Next]_vars

\* The same pipeline driven by a caller that repeats run_trinity_loop calls
\* and remembers one earlier result to compare later results with.
HistoryTemps == {0, DefaultTemperature}
HistoryProviders == {None, "echo", "rev", "oa2"}

NextHistory ==
    \/ \E t \in Topics, g \in Goals, c \in Constraints,
          p \in HistoryProviders, temp \in HistoryTemps :
           CallRunTrinityLoop(t, g, c, p, temp)
    \/ Enter
    \/ Generate
    \/ Oppose
    \/ Synthesize
    \/ Finish(TRUE)

SpecHistory == Init /\ [][NextHistory]_vars

-----------------------------------------------------------------------------
\* Properties.

\* The completion text the current run received from its i-th call.
StageText(i) ==
    CASE calls[i].stage = "generate" -> generated
      [] calls[i].stage = "oppose" -> opposed
      [] OTHER -> synthesized

\* An OpenAIProvider object that answers in degraded mode.
Degraded(o) ==
    o \in DOMAIN heap /\ (~heap[o]._ok \/ heap[o]._client = None)

\* text is the offline header, the prompt label, and then a prefix of prompt
\* that is at most PromptLimit characters long.
IsOfflineEcho(text, prompt) ==
    /\ StartsWith(text, header \o PromptLabel)
    /\ LET echo == SubSeq(text, Len(header) + Len(PromptLabel) + 1, Len(text)) IN
       /\ Len(echo) <= PromptLimit
       /\ StartsWith(prompt, echo)

InRun == pc \in {"generate", "oppose", "synthesize", "returned", "raised"}

\* C1: with the echo stub and a non-empty topic, the returned 'oppose' text
\* contains the whole 'generate' text and the returned 'synthesize' text
\* contains the whole 'oppose' text.
C1_Chaining ==
    (pc = "returned" /\ supplied = "echo" /\ topic # <<>>) =>
        /\ Contains(result[1].oppose, result[1].generate)
        /\ Contains(result[1].synthesize, result[1].oppose)

\* C1 witness: a run on the echo stub with the long topic has returned.
C1_Witness ==
    /\ pc = "returned" /\ supplied = "echo"
    /\ Len(topic) = LongLen
    /\ Len(result[1].oppose) > Len(result[1].generate)

\* C2: for a base temperature in [0.2, 2.0] the synthesize call receives
\* base - 0.2, for a base in [0.0, 0.2) it receives 0.0, and in both cases
\* the value is neither negative nor above the base.
C2_SynthesizeTemperature ==
    \A i \in 1..Len(calls) :
        calls[i].stage = "synthesize" =>
            /\ (SynCooling <= temperature /\ temperature <= 200) =>
                   calls[i].temperature = temperature - 20
            /\ (0 <= temperature /\ temperature < SynCooling) =>
                   calls[i].temperature = 0
            /\ (0 <= temperature /\ temperature <= 200) =>
                   (0 <= calls[i].temperature
                    /\ calls[i].temperature <= temperature)

\* C2 witness: a synthesize call was made with base temperature 0.19 and
\* received 0.0.
C2_Witness ==
    /\ Len(calls) = 3
    /\ temperature = SynCooling - 1
    /\ calls[3].stage = "synthesize" /\ calls[3].temperature = 0

\* C3: a run_trinity_loop call with the empty topic is rejected with
\* InvalidRequest before any provider call and before a default provider is
\* constructed.
C3_EmptyTopicRejected ==
    (InRun /\ topic = <<>>) =>
        /\ pc = "raised"
        /\ error # <<>> /\ error[1].type = "InvalidRequest"
        /\ calls = <<>>
        /\ DefaultProvider \notin DOMAIN heap

\* C4: a call that raised is the last call of its run (no later stage is
\* called), no stage is called twice (no retry), and a run that raised has
\* no result mapping.
C4_AbortOnRaise ==
    /\ \A i \in 1..Len(calls) :
           calls[i].raised => (i = Len(calls) /\ pc = "raised")
    /\ \A i, j \in 1..Len(calls) :
           i # j => calls[i].stage # calls[j].stage
    /\ pc = "raised" =>
           /\ result = <<>>
           /\ calls # <<>> /\ calls[Len(calls)].raised

\* C4 witness: the oppose call raised after the generate call had returned.
C4_Witness ==
    /\ pc = "raised" /\ Len(calls) = 2
    /\ calls[2].stage = "oppose" /\ calls[2].raised
    /\ generated # <<>>

\* C5: the error a run propagates is a ProviderFailure naming the stage
\* whose provider call raised.
C5_FailureNamesStage ==
    pc = "raised" =>
        /\ error[1].type = "ProviderFailure"
        /\ "stage" \in DOMAIN error[1]
        /\ error[1].stage = calls[Len(calls)].stage

SameInputs ==
    /\ memo # <<>>
    /\ memo[1].topic = topic /\ memo[1].goal = goal
    /\ memo[1].constraints = constraints
    /\ memo[1].temperature = temperature
    /\ memo[1].provider = provider

\* C7: a run on a pure stub returns the result an earlier run with the same
\* inputs on the same stub returned, whatever runs were made in between.
C7_NoHiddenState ==
    (pc = "returned" /\ provider \in PureStubs /\ SameInputs) =>
        result[1] = memo[1].result

\* C7 witness: a run on the reversing stub has returned and an earlier run
\* with the same inputs is remembered.
C7_Witness ==
    /\ pc = "returned" /\ provider = "rev" /\ SameInputs
    /\ topic # <<>>

C9_StageOrder ==
    /\ \A i \in 2..Len(calls) : ~calls[i - 1].raised
    /\ Len(calls) <= 3
    /\ \A i \in 1..Len(calls) :
           calls[i].stage = <<"generate", "oppose", "synthesize">>[i]
    /\ pc = "returned" =>
           /\ Len(calls) = 3
           /\ \A i \in 1..3 : ~calls[i].raised
           /\ calls[2].prompt =
                  OPP_TEMPLATE_head \o result[1].generate \o OPP_TEMPLATE_tail
           /\ calls[3].prompt =
                  SYN_TEMPLATE_head \o result[1].oppose \o SYN_TEMPLATE_tail
           /\ calls[1].temperature = temperature
           /\ calls[2].temperature = temperature

\* C9 witness: a run on the hosted provider has returned after three calls.
C9_Witness ==
    /\ pc = "returned" /\ provider = "oa2" /\ Len(calls) = 3
    /\ temperature = MaxTemp

\* Every call logged on a provider whose readiness flag is off was answered
\* in degraded mode.
DegradedAnswers ==
    /\ (direct # <<>> /\ direct[1].on \in DOMAIN heap
            /\ ~heap[direct[1].on]._ok) =>
           (~direct[1].raised /\ StartsWith(direct[1].text, header))
    /\ \A i \in 1..Len(calls) :
           (calls[i].on \in DOMAIN heap /\ ~heap[calls[i].on]._ok) =>
               (~calls[i].raised /\ StartsWith(StageText(i), header))

\* C10: no step changes the flag, the client or the model of a provider
\* object that exists before and after it, and calls on a provider whose flag
\* is off are answered in degraded mode.
C10_ReadinessFixed ==
    [][/\ \A o \in DOMAIN heap \cap DOMAIN heap' : heap'[o] = heap[o]
       /\ DegradedAnswers']_vars

\* C10 witness: a direct call on the hosted provider raised and the provider
\* is still ready.
C10_Witness ==
    /\ direct # <<>> /\ direct[1].on = "oa2" /\ direct[1].raised
    /\ heap["oa2"]._ok /\ heap["oa2"]._client # None

====
